---- MODULE Spec2Model ----
(***************************************************************************)
(* Model of the rradio packet codec (src/src/rradio/packet.py) and of the  *)
(* peer store (src/src/rradio/peerdb.py).                                   *)
(*                                                                         *)
(* Python integers are unbounded.  Fields of at most 24 bits are modelled  *)
(* as integers.  The 32-bit fields (time, serial, image, data1) are        *)
(* modelled as pairs [hi, lo] that stand for hi * 65536 + lo with lo in    *)
(* 0..65535 and hi any integer, so that the full 32-bit range, and values  *)
(* beyond it, can be written down.                                         *)
(***************************************************************************)
EXTENDS Integers, Sequences, FiniteSets, TLC

VARIABLES kw, pkt, data, err, last, sent, src, peers

\* the serial transport and its consumers, described where they are used
VARIABLES port, io, now, gen, hist, job, prog

codecVars == <<kw, pkt, data, err, last, sent, src, peers>>
serialVars == <<port, io, now, gen, hist, job, prog>>
vars == <<kw, pkt, data, err, last, sent, src, peers,
          port, io, now, gen, hist, job, prog>>

(***************************************************************************)
(* Bounds of the model.                                                    *)
(***************************************************************************)
\* number of sample values drawn for every constructor argument
NumSamples == 4
\* number of bytes of trailing garbage appended to a canonical buffer
MaxTail == 2
\* number of seeds of the byte patterns received from the relay
NumSeeds == 3
\* longest payload given to a RawRadioPacket constructor
MaxPayload == 3

(***************************************************************************)
(* Results of operations that may raise.                                   *)
(***************************************************************************)
Ok(v) == [err |-> "", val |-> v]
Raise(e, v) == [err |-> e, val |-> v]

\* Optional[bytes]: None is the empty tuple, a value b is <<b>>
None == <<>>
Some(b) == <<b>>

NoPacket == [cls |-> "None"]
NoArgs == [cls |-> "None"]

ShortHeader == "ValueError: Packet too short"
ShortDecode == "ValueError: Packet too short to decode"
ShortFor(cls) == "ValueError: Packet too short for " \o cls
NotA(cls) == "ValueError: Not a " \o cls
BadSize(cls) == "ValueError: " \o cls \o " wrong size"
StructError == "struct.error"
AttributeError == "AttributeError"

(***************************************************************************)
(* 32-bit-and-wider integers as pairs.                                     *)
(***************************************************************************)
Wide(hi, lo) == [hi |-> hi, lo |-> lo]
W0 == Wide(0, 0)

\* x & 0xFFFFFFFF
Mask32(w) == Wide(w.hi % 65536, w.lo)

(***************************************************************************)
(* struct.Struct with the "<" (little-endian, unpadded) layout.  A format  *)
(* is the sequence of its codes.                                           *)
(***************************************************************************)
CodeSize(c) ==
    CASE c = "B" -> 1
      [] c \in {"h", "H"} -> 2
      [] c \in {"i", "I"} -> 4

RECURSIVE StructSize(_)
StructSize(fmt) ==
    IF fmt = <<>> THEN 0 ELSE CodeSize(Head(fmt)) + StructSize(Tail(fmt))

InRange(c, v) ==
    CASE c = "B" -> v \in 0..255
      [] c = "H" -> v \in 0..65535
      [] c = "h" -> v \in -32768..32767
      [] c = "i" -> v.hi \in -32768..32767
      [] c = "I" -> v.hi \in 0..65535

LE16(u) == <<u % 256, u \div 256>>

PackOne(c, v) ==
    CASE c = "B" -> <<v>>
      [] c = "H" -> LE16(v)
      [] c = "h" -> LE16(v % 65536)
      [] c \in {"i", "I"} -> LE16(v.lo) \o LE16(v.hi % 65536)

RECURSIVE PackAll(_, _)
PackAll(fmt, values) ==
    IF fmt = <<>> THEN <<>>
    ELSE PackOne(Head(fmt), Head(values)) \o PackAll(Tail(fmt), Tail(values))

\* Struct.pack: raises struct.error when a value does not fit its code
struct_pack(fmt, values) ==
    IF \E i \in 1..Len(fmt) : ~InRange(fmt[i], values[i])
    THEN Raise(StructError, <<>>)
    ELSE Ok(PackAll(fmt, values))

U16At(b, o) == b[o + 1] + 256 * b[o + 2]
S16(u) == IF u >= 32768 THEN u - 65536 ELSE u

UnpackOne(c, b, o) ==
    CASE c = "B" -> b[o + 1]
      [] c = "H" -> U16At(b, o)
      [] c = "h" -> S16(U16At(b, o))
      [] c = "I" -> Wide(U16At(b, o + 2), U16At(b, o))
      [] c = "i" -> Wide(S16(U16At(b, o + 2)), U16At(b, o))

\* Struct.unpack_from(view, offset): the values in the order of the format,
\* each read at the offset the sizes of the codes before it add up to; the
\* callers have checked the length
RECURSIVE unpack_from(_, _, _)
unpack_from(fmt, b, offset) ==
    IF fmt = <<>> THEN <<>>
    ELSE <<UnpackOne(Head(fmt), b, offset)>>
            \o unpack_from(Tail(fmt), b, offset + CodeSize(Head(fmt)))

(***************************************************************************)
(* PayloadType and the shared header.                                      *)
(***************************************************************************)
HERE_I_AM == 10
DISPLAY == 11
BOT_COMMAND == 20
BOT_STATUS == 21
JOYSTICK == 30

HEADER_STRUCT == <<"B", "i", "i">>
HEADER_SIZE == StructSize(HEADER_STRUCT)

FixedClasses ==
    {"HereIAmPacket", "DisplayPacket", "BotCommandPacket", "BotStatusPacket",
     "JoystickPacket"}
Classes == FixedClasses \cup {"RawRadioPacket"}

PACKET_TYPE(cls) ==
    CASE cls = "HereIAmPacket" -> HERE_I_AM
      [] cls = "DisplayPacket" -> DISPLAY
      [] cls = "BotCommandPacket" -> BOT_COMMAND
      [] cls = "BotStatusPacket" -> BOT_STATUS
      [] cls = "JoystickPacket" -> JOYSTICK

\* mutant: the signed 16-bit codes written as unsigned ones
PAYLOAD_STRUCT_unsigned(cls) ==
    CASE cls = "HereIAmPacket" -> <<"B", "H", "H", "H", "I">>
      [] cls = "DisplayPacket" ->
            <<"B", "B", "I", "B", "B", "B", "B", "B", "B", "B", "B", "B", "B", "B", "B">>
      [] cls = "BotCommandPacket" -> <<"B", "H", "H", "H", "H", "H", "H", "H", "i">>
      [] cls = "BotStatusPacket" -> <<"B", "H", "H", "H">>
      [] cls = "JoystickPacket" -> <<"H", "H", "B", "H", "H", "H">>

PAYLOAD_STRUCT(cls) ==
    CASE cls = "HereIAmPacket" -> <<"B", "H", "H", "H", "I">>
      [] cls = "DisplayPacket" ->
            <<"B", "B", "I", "B", "B", "B", "B", "B", "B", "B", "B", "B", "B", "B", "B">>
      [] cls = "BotCommandPacket" -> <<"B", "h", "h", "h", "h", "h", "h", "h", "i">>
      [] cls = "BotStatusPacket" -> <<"B", "h", "h", "h">>
      [] cls = "JoystickPacket" -> <<"H", "H", "B", "h", "h", "h">>

\* RadioPacket.TOTAL_SIZE is None, which parse_packet tests for truth: 0 here
TOTAL_SIZE(cls) ==
    IF cls \in FixedClasses THEN HEADER_SIZE + StructSize(PAYLOAD_STRUCT(cls)) ELSE 0

\* RadioPacket.__init__
RadioPacket(packet_type, time, serial) ==
    [packet_type |-> packet_type % 256, time |-> time, serial |-> serial]

\* RadioPacket._parse_header
_parse_header(b) ==
    IF Len(b) < HEADER_SIZE
    THEN Raise(ShortHeader, <<>>)
    ELSE Ok(unpack_from(HEADER_STRUCT, b, 0))

(***************************************************************************)
(* RawRadioPacket                                                          *)
(***************************************************************************)
RawRadioPacket(packet_type, payload, time, serial) ==
    [cls |-> "RawRadioPacket", payload |-> payload]
        @@ RadioPacket(packet_type, time, serial)

\* mutant: the payload slice starts one byte late
RawRadioPacket_from_bytes_late(b) ==
    LET hdr == _parse_header(b) IN
    IF hdr.err # "" THEN Raise(hdr.err, NoPacket)
    ELSE Ok(RawRadioPacket(hdr.val[1], SubSeq(b, HEADER_SIZE + 2, Len(b)),
                           hdr.val[2], hdr.val[3]))

RawRadioPacket_from_bytes(b) ==
    LET hdr == _parse_header(b) IN
    IF hdr.err # "" THEN Raise(hdr.err, NoPacket)
    ELSE Ok(RawRadioPacket(hdr.val[1], SubSeq(b, HEADER_SIZE + 1, Len(b)),
                           hdr.val[2], hdr.val[3]))

(***************************************************************************)
(* Colours                                                                 *)
(***************************************************************************)
_join_color(red, green, blue) ==
    (red % 256) * 65536 + (green % 256) * 256 + (blue % 256)

\* mutant: the channels come out in the order blue, green, red
_split_color_bgr(value) ==
    LET v == value % 16777216 IN
    <<v % 256, (v \div 256) % 256, (v \div 65536) % 256>>

_split_color(value) ==
    LET v == value % 16777216 IN
    <<(v \div 65536) % 256, (v \div 256) % 256, v % 256>>

(***************************************************************************)
(* The fixed variants.  Each constructor takes Optional[bytes] and the     *)
(* keyword arguments; when bytes are given the keyword arguments are       *)
(* replaced by the decoded values before the fields are stored.            *)
(***************************************************************************)
Header(cls, a) ==
    [cls |-> cls] @@ RadioPacket(PACKET_TYPE(cls), a.time, a.serial)

\* mutant: the type tag of the buffer is not compared with the variant's
Decoded_any_tag(cls, b) ==
    LET hdr == _parse_header(b) IN
    IF hdr.err # "" THEN Raise(hdr.err, <<>>)
    ELSE IF Len(b) # TOTAL_SIZE(cls) THEN Raise(BadSize(cls), <<>>)
    ELSE Ok([time |-> hdr.val[2], serial |-> hdr.val[3],
             values |-> unpack_from(PAYLOAD_STRUCT(cls), b, HEADER_SIZE)])

\* the checks and the unpacking every variant performs on a buffer
Decoded(cls, b) ==
    LET hdr == _parse_header(b) IN
    IF hdr.err # "" THEN Raise(hdr.err, <<>>)
    ELSE IF hdr.val[1] # PACKET_TYPE(cls) THEN Raise(NotA(cls), <<>>)
    ELSE IF Len(b) # TOTAL_SIZE(cls) THEN Raise(BadSize(cls), <<>>)
    ELSE Ok([time |-> hdr.val[2], serial |-> hdr.val[3],
             values |-> unpack_from(PAYLOAD_STRUCT(cls), b, HEADER_SIZE)])

BotCommandFields(a) ==
    Header("BotCommandPacket", a) @@
    [command_type |-> a.command_type % 256,
     motor1 |-> a.motor1, motor2 |-> a.motor2,
     motor3 |-> a.motor3, motor4 |-> a.motor4,
     duration |-> a.duration,
     servo1 |-> a.servo1, servo2 |-> a.servo2,
     data1 |-> a.data1]

BotCommandPacket(d, a) ==
    IF d # None THEN
        LET dec == Decoded("BotCommandPacket", d[1])
            v == dec.val.values
        IN  IF dec.err # "" THEN Raise(dec.err, NoPacket)
            ELSE Ok(BotCommandFields(
                    [command_type |-> v[1], motor1 |-> v[2], motor2 |-> v[3],
                     motor3 |-> v[4], motor4 |-> v[5], duration |-> v[6],
                     servo1 |-> v[7], servo2 |-> v[8], data1 |-> v[9],
                     time |-> dec.val.time, serial |-> dec.val.serial]))
    ELSE Ok(BotCommandFields(a))

BotCommandPacket_payload_bytes(p) ==
    struct_pack(PAYLOAD_STRUCT("BotCommandPacket"),
                <<p.command_type % 256, p.motor1, p.motor2, p.motor3, p.motor4,
                  p.duration, p.servo1, p.servo2, p.data1>>)

BotStatusFields(a) ==
    Header("BotStatusPacket", a) @@
    [buttons |-> a.buttons % 256,
     accel_x |-> a.accel_x, accel_y |-> a.accel_y, accel_z |-> a.accel_z]

BotStatusPacket(d, a) ==
    IF d # None THEN
        LET dec == Decoded("BotStatusPacket", d[1])
            v == dec.val.values
        IN  IF dec.err # "" THEN Raise(dec.err, NoPacket)
            ELSE Ok(BotStatusFields(
                    [buttons |-> v[1], accel_x |-> v[2], accel_y |-> v[3],
                     accel_z |-> v[4],
                     time |-> dec.val.time, serial |-> dec.val.serial]))
    ELSE Ok(BotStatusFields(a))

BotStatusPacket_payload_bytes(p) ==
    struct_pack(PAYLOAD_STRUCT("BotStatusPacket"),
                <<p.buttons % 256, p.accel_x, p.accel_y, p.accel_z>>)

\* mutant: the colours are stored as given
DisplayFields_unmasked(a) ==
    Header("DisplayPacket", a) @@
    [tone |-> a.tone % 256,
     duration |-> a.duration % 256,
     image |-> Mask32(a.image),
     head_lamp_left |-> a.head_lamp_left,
     head_lamp_right |-> a.head_lamp_right,
     neo_left |-> a.neo_left,
     neo_right |-> a.neo_right]

DisplayFields(a) ==
    Header("DisplayPacket", a) @@
    [tone |-> a.tone % 256,
     duration |-> a.duration % 256,
     image |-> Mask32(a.image),
     head_lamp_left |-> a.head_lamp_left % 16777216,
     head_lamp_right |-> a.head_lamp_right % 16777216,
     neo_left |-> a.neo_left % 16777216,
     neo_right |-> a.neo_right % 16777216]

DisplayPacket(d, a) ==
    IF d # None THEN
        LET dec == Decoded("DisplayPacket", d[1])
            v == dec.val.values
        IN  IF dec.err # "" THEN Raise(dec.err, NoPacket)
            ELSE Ok(DisplayFields(
                    [tone |-> v[1], duration |-> v[2], image |-> v[3],
                     head_lamp_left |-> _join_color(v[4], v[5], v[6]),
                     head_lamp_right |-> _join_color(v[7], v[8], v[9]),
                     neo_left |-> _join_color(v[10], v[11], v[12]),
                     neo_right |-> _join_color(v[13], v[14], v[15]),
                     time |-> dec.val.time, serial |-> dec.val.serial]))
    ELSE Ok(DisplayFields(a))

DisplayPacket_payload_bytes(p) ==
    LET color_bytes ==
            _split_color(p.head_lamp_left) \o _split_color(p.head_lamp_right)
                \o _split_color(p.neo_left) \o _split_color(p.neo_right)
    IN  struct_pack(PAYLOAD_STRUCT("DisplayPacket"),
                    <<p.tone % 256, p.duration % 256, Mask32(p.image)>>
                        \o color_bytes)

HereIAmFields(a) ==
    Header("HereIAmPacket", a) @@
    [class_id |-> a.class_id % 256,
     group |-> a.group % 65536,
     channel |-> a.channel % 65536,
     flags |-> a.flags % 65536,
     image |-> Mask32(a.image)]

HereIAmPacket(d, a) ==
    IF d # None THEN
        LET dec == Decoded("HereIAmPacket", d[1])
            v == dec.val.values
        IN  IF dec.err # "" THEN Raise(dec.err, NoPacket)
            ELSE Ok(HereIAmFields(
                    [class_id |-> v[1], group |-> v[2], channel |-> v[3],
                     flags |-> v[4], image |-> v[5],
                     time |-> dec.val.time, serial |-> dec.val.serial]))
    ELSE Ok(HereIAmFields(a))

HereIAmPacket_payload_bytes(p) ==
    struct_pack(PAYLOAD_STRUCT("HereIAmPacket"),
                <<p.class_id % 256, p.group % 65536, p.channel % 65536,
                  p.flags % 65536, Mask32(p.image)>>)

JoystickFields(a) ==
    Header("JoystickPacket", a) @@
    [x |-> a.x % 65536,
     y |-> a.y % 65536,
     buttons |-> a.buttons % 256,
     accel_x |-> a.accel_x, accel_y |-> a.accel_y, accel_z |-> a.accel_z]

JoystickPacket(d, a) ==
    IF d # None THEN
        LET dec == Decoded("JoystickPacket", d[1])
            v == dec.val.values
        IN  IF dec.err # "" THEN Raise(dec.err, NoPacket)
            ELSE Ok(JoystickFields(
                    [x |-> v[1], y |-> v[2], buttons |-> v[3],
                     accel_x |-> v[4], accel_y |-> v[5], accel_z |-> v[6],
                     time |-> dec.val.time, serial |-> dec.val.serial]))
    ELSE Ok(JoystickFields(a))

JoystickPacket_payload_bytes(p) ==
    struct_pack(PAYLOAD_STRUCT("JoystickPacket"),
                <<p.x % 65536, p.y % 65536, p.buttons % 256,
                  p.accel_x, p.accel_y, p.accel_z>>)

(***************************************************************************)
(* Dispatch over the class of an object.                                   *)
(***************************************************************************)
\* cls(data=None, **kwargs)
New(cls, d, a) ==
    CASE cls = "BotCommandPacket" -> BotCommandPacket(d, a)
      [] cls = "BotStatusPacket" -> BotStatusPacket(d, a)
      [] cls = "DisplayPacket" -> DisplayPacket(d, a)
      [] cls = "HereIAmPacket" -> HereIAmPacket(d, a)
      [] cls = "JoystickPacket" -> JoystickPacket(d, a)

\* mutant: the base class's payload_bytes, which no variant overrides
payload_bytes_base(p) == Ok(<<>>)

\* p.payload_bytes()
payload_bytes(p) ==
    CASE p.cls = "RawRadioPacket" -> Ok(p.payload)
      [] p.cls = "BotCommandPacket" -> BotCommandPacket_payload_bytes(p)
      [] p.cls = "BotStatusPacket" -> BotStatusPacket_payload_bytes(p)
      [] p.cls = "DisplayPacket" -> DisplayPacket_payload_bytes(p)
      [] p.cls = "HereIAmPacket" -> HereIAmPacket_payload_bytes(p)
      [] p.cls = "JoystickPacket" -> JoystickPacket_payload_bytes(p)

\* RadioPacket.to_bytes: the header is packed first, then the payload
to_bytes(p) ==
    LET header == struct_pack(HEADER_STRUCT, <<p.packet_type, p.time, p.serial>>)
        payload == payload_bytes(p)
    IN  IF header.err # "" THEN Raise(header.err, <<>>)
        ELSE IF payload.err # "" THEN Raise(payload.err, <<>>)
        ELSE Ok(header.val \o payload.val)

\* cls.from_bytes(data); the keyword arguments keep their defaults
from_bytes(cls, b) ==
    IF cls = "RawRadioPacket" THEN RawRadioPacket_from_bytes(b)
    ELSE New(cls, Some(b), NoArgs)

PACKET_CLASSES ==
    [t \in {BOT_COMMAND, BOT_STATUS, DISPLAY, HERE_I_AM, JOYSTICK} |->
        CASE t = BOT_COMMAND -> "BotCommandPacket"
          [] t = BOT_STATUS -> "BotStatusPacket"
          [] t = DISPLAY -> "DisplayPacket"
          [] t = HERE_I_AM -> "HereIAmPacket"
          [] t = JOYSTICK -> "JoystickPacket"]

\* mutant: a buffer too short for its variant is decoded as a raw packet
parse_packet_short_as_raw(b) ==
    IF Len(b) < HEADER_SIZE THEN Raise(ShortDecode, NoPacket)
    ELSE
        LET packet_type == b[1]
            packet_cls == IF packet_type \in DOMAIN PACKET_CLASSES
                          THEN PACKET_CLASSES[packet_type]
                          ELSE "RawRadioPacket"
            expected_size == TOTAL_SIZE(packet_cls)
        IN  IF expected_size # 0
            THEN IF Len(b) < expected_size
                 THEN from_bytes("RawRadioPacket", b)
                 ELSE from_bytes(packet_cls, SubSeq(b, 1, expected_size))
            ELSE from_bytes(packet_cls, b)

\* mutant: the surplus bytes are not cut off before the variant decodes
parse_packet_whole(b) ==
    IF Len(b) < HEADER_SIZE THEN Raise(ShortDecode, NoPacket)
    ELSE
        LET packet_type == b[1]
            packet_cls == IF packet_type \in DOMAIN PACKET_CLASSES
                          THEN PACKET_CLASSES[packet_type]
                          ELSE "RawRadioPacket"
            expected_size == TOTAL_SIZE(packet_cls)
        IN  IF expected_size # 0 /\ Len(b) < expected_size
            THEN Raise(ShortFor(packet_cls), NoPacket)
            ELSE from_bytes(packet_cls, b)

parse_packet(b) ==
    IF Len(b) < HEADER_SIZE THEN Raise(ShortDecode, NoPacket)
    ELSE
        LET packet_type == b[1]
            packet_cls == IF packet_type \in DOMAIN PACKET_CLASSES
                          THEN PACKET_CLASSES[packet_type]
                          ELSE "RawRadioPacket"
            expected_size == TOTAL_SIZE(packet_cls)
        IN  IF expected_size # 0
            THEN IF Len(b) < expected_size
                 THEN Raise(ShortFor(packet_cls), NoPacket)
                 ELSE from_bytes(packet_cls, SubSeq(b, 1, expected_size))
            ELSE from_bytes(packet_cls, b)

(***************************************************************************)
(* PeerRecord and PeerDB.  Reading an attribute the object does not have   *)
(* raises AttributeError.                                                  *)
(***************************************************************************)
\* mutant: an attribute the object lacks reads as 0
PeerRecord_from_packet_lenient(p) ==
    LET get(n) == IF n \in DOMAIN p THEN p[n] ELSE 0 IN
    Ok([serial |-> get("serial"), class_id |-> get("class_id"),
        group |-> get("group"), channel |-> get("channel"),
        flags |-> get("flags"), image |-> get("image"), time |-> get("time")])

PeerRecord_from_packet(p) ==
    IF ~({"serial", "class_id", "group", "channel", "flags", "image", "time"}
            \subseteq DOMAIN p)
    THEN Raise(AttributeError, <<>>)
    ELSE Ok([serial |-> p.serial, class_id |-> p.class_id, group |-> p.group,
             channel |-> p.channel, flags |-> p.flags, image |-> p.image,
             time |-> p.time])

\* mutant: add keeps the record already stored under the serial
PeerDB_add_keep_first(db, p) ==
    LET record == PeerRecord_from_packet(p) IN
    IF record.err # ""
    THEN [err |-> record.err, val |-> <<>>, peers |-> db]
    ELSE [err |-> "", val |-> record.val,
          peers |-> db @@ (record.val.serial :> record.val)]

\* PeerDB.add: the new mapping, the record returned and the error raised
PeerDB_add(db, p) ==
    LET record == PeerRecord_from_packet(p) IN
    IF record.err # ""
    THEN [err |-> record.err, val |-> <<>>, peers |-> db]
    ELSE [err |-> "", val |-> record.val,
          peers |-> (record.val.serial :> record.val) @@ db]

PeerDB_clear(db) == <<>>

PeerDB_find_by_serial(db, serial) ==
    IF serial \in DOMAIN db THEN Some(db[serial]) ELSE None

PeerDB_len(db) == Cardinality(DOMAIN db)

(***************************************************************************)
(* Text and bytes of the serial protocol (src/src/rradio/rrserial.py).     *)
(* A str is a sequence of one-character strings, a bytes object a sequence *)
(* of integers 0..255.  The bytes of the model are ASCII or 255, a byte    *)
(* that never occurs in UTF-8.                                             *)
(***************************************************************************)
ValueError == "ValueError"

CMD_SEND == <<"s", ":">>
CMD_RECEIVE == <<"r", ":">>

\* the characters str.strip() removes, among those of the model
Whitespace == {" ", "\t", "\n", "\r"}

Printable ==
    <<
      " ", "!", "\"", "#", "$", "%", "&", "'", "(", ")", "*", "+",
      ",", "-", ".", "/", "0", "1", "2", "3", "4", "5", "6", "7",
      "8", "9", ":", ";", "<", "=", ">", "?", "@", "A", "B", "C",
      "D", "E", "F", "G", "H", "I", "J", "K", "L", "M", "N", "O",
      "P", "Q", "R", "S", "T", "U", "V", "W", "X", "Y", "Z", "[",
      "\\", "]", "^", "_", "U+0060", "a", "b", "c", "d", "e", "f", "g",
      "h", "i", "j", "k", "l", "m", "n", "o", "p", "q", "r", "s",
      "t", "u", "v", "w", "x", "y", "z", "{", "|", "}", "~"
    >>

\* ord(c) and chr(n) for the characters of the model
ord(c) ==
    CASE c = "\t" -> 9
      [] c = "\n" -> 10
      [] c = "\r" -> 13
      [] OTHER -> 31 + CHOOSE i \in 1..Len(Printable) : Printable[i] = c

chr(n) ==
    CASE n = 9 -> "\t"
      [] n = 10 -> "\n"
      [] n = 13 -> "\r"
      [] OTHER -> Printable[n - 31]

\* str.encode("ascii")
encode_ascii(s) == [i \in 1..Len(s) |-> ord(s[i])]

\* bytes.decode("utf-8", errors="replace"): a byte that is not ASCII and
\* belongs to no UTF-8 sequence becomes U+FFFD
ReplacementChar == "U+FFFD"
decode_utf8(b) ==
    [i \in 1..Len(b) |-> IF b[i] >= 128 THEN ReplacementChar ELSE chr(b[i])]

\* str.rstrip(chars) and str.lstrip(chars)
RECURSIVE rstrip(_, _)
rstrip(s, chars) ==
    IF s # <<>> /\ s[Len(s)] \in chars
    THEN rstrip(SubSeq(s, 1, Len(s) - 1), chars)
    ELSE s

RECURSIVE lstrip(_, _)
lstrip(s, chars) ==
    IF s # <<>> /\ Head(s) \in chars THEN lstrip(Tail(s), chars) ELSE s

\* str.strip()
strip(s) == lstrip(rstrip(s, Whitespace), Whitespace)

\* str.lower()
IsUpper(c) == c # ReplacementChar /\ ord(c) \in 65..90
lower(s) == [i \in 1..Len(s) |-> IF IsUpper(s[i]) THEN chr(ord(s[i]) + 32) ELSE s[i]]

\* str.replace(" ", "")
NotSpace(c) == c # " "
replace_spaces(s) == SelectSeq(s, NotSpace)

\* str.partition(sep): the text before the first sep, the sep found, the rest
partition(s, sep) ==
    IF \E i \in 1..Len(s) : s[i] = sep
    THEN LET i == CHOOSE i \in 1..Len(s) :
                     s[i] = sep /\ \A j \in 1..(i - 1) : s[j] # sep
         IN  [prefix |-> SubSeq(s, 1, i - 1), sep |-> <<sep>>,
              rest |-> SubSeq(s, i + 1, Len(s))]
    ELSE [prefix |-> s, sep |-> <<>>, rest |-> <<>>]

\* the value of a hexadecimal digit, -1 for any other character
HexVal(c) ==
    LET n == IF c = ReplacementChar THEN 0 ELSE ord(c)
    IN  CASE n \in 48..57 -> n - 48
          [] n \in 97..102 -> n - 87
          [] n \in 65..70 -> n - 55
          [] OTHER -> -1

\* bytes.fromhex: whitespace is skipped between bytes, never inside one.
\* From character i on, the text is made of digit pairs and whitespace ...
RECURSIVE HexPairsFrom(_, _)
HexPairsFrom(s, i) ==
    IF i > Len(s) THEN TRUE
    ELSE IF s[i] \in Whitespace THEN HexPairsFrom(s, i + 1)
    ELSE /\ i + 1 <= Len(s)
         /\ HexVal(s[i]) >= 0
         /\ HexVal(s[i + 1]) >= 0
         /\ HexPairsFrom(s, i + 2)

\* ... and these are the bytes its pairs spell
RECURSIVE HexBytesFrom(_, _)
HexBytesFrom(s, i) ==
    IF i > Len(s) THEN <<>>
    ELSE IF s[i] \in Whitespace THEN HexBytesFrom(s, i + 1)
    ELSE <<16 * HexVal(s[i]) + HexVal(s[i + 1])>> \o HexBytesFrom(s, i + 2)

bytes_fromhex(s) ==
    IF HexPairsFrom(s, 1) THEN Ok(HexBytesFrom(s, 1)) ELSE Raise(ValueError, <<>>)

\* bytes.hex(): two lowercase digits per byte
HexDigit(n) == IF n < 10 THEN chr(48 + n) ELSE chr(87 + n)
bytes_hex(b) ==
    [i \in 1..(2 * Len(b)) |->
        IF i % 2 = 1 THEN HexDigit(b[(i + 1) \div 2] \div 16)
        ELSE HexDigit(b[i \div 2] % 16)]

\* the two kinds of event data
Bytes(b) == [type |-> "bytes", val |-> b]
Str(s) == [type |-> "str", val |-> s]

(***************************************************************************)
(* RRSerial.send and the body of RRSerial.iter.                            *)
(***************************************************************************)
LOG == <<"l", "o", "g">>
R == <<"r">>
Event(command, d) == [command |-> command, data |-> d]

\* mutant: the line is written as built, without the final strip()
RRSerial_send_unstripped(payload, prefix) ==
    LET payload_hex == IF payload.type = "bytes"
                       THEN bytes_hex(payload.val)
                       ELSE strip(replace_spaces(payload.val))
        command == prefix \o <<" ">> \o payload_hex
    IN  [write |-> encode_ascii(command) \o <<10>>, ret |-> command]

\* RRSerial.send: the bytes given to write() and the string returned
RRSerial_send(payload, prefix) ==
    LET payload_hex == IF payload.type = "bytes"
                       THEN bytes_hex(payload.val)
                       ELSE strip(replace_spaces(payload.val))
        command == strip(prefix \o <<" ">> \o payload_hex)
    IN  [write |-> encode_ascii(command) \o <<10>>, ret |-> command]

\* mutant: an "r" payload that is not hexadecimal is passed on as text
iter_event_text_on_bad_hex(line) ==
    LET text == rstrip(decode_utf8(line), {"\r", "\n"})
        p == partition(text, ":")
        raw_command == strip(p.prefix)
        payload == strip(p.rest)
        command == IF lower(raw_command) = <<>> THEN LOG ELSE lower(raw_command)
        decoded == bytes_fromhex(replace_spaces(payload))
    IN  IF text = <<>> THEN None
        ELSE IF p.sep = <<>> THEN Some(Event(LOG, Str(text)))
        ELSE IF command = R /\ decoded.err = ""
        THEN Some(Event(command, Bytes(decoded.val)))
        ELSE Some(Event(command, Str(payload)))

\* RRSerial.iter from the decoding of a line read to the yield: the event the
\* line gives, None when it gives none
iter_event(line) ==
    LET text == rstrip(decode_utf8(line), {"\r", "\n"})
        p == partition(text, ":")
        raw_command == strip(p.prefix)
        payload == strip(p.rest)
        command == IF lower(raw_command) = <<>> THEN LOG ELSE lower(raw_command)
        decoded == bytes_fromhex(replace_spaces(payload))
    IN  IF text = <<>> THEN None
        ELSE IF p.sep = <<>> THEN Some(Event(LOG, Str(text)))
        ELSE IF command = R
        THEN Some(Event(command,
                        Bytes(IF decoded.err # "" THEN <<>> ELSE decoded.val)))
        ELSE Some(Event(command, Str(payload)))

(***************************************************************************)
(* RRSerial.iter as a generator.  Time is counted in ticks of 0.05 s and   *)
(* is read from the moment the call began.  A generator is                 *)
(*   st        "running" inside next(), "yielded" suspended at its yield,  *)
(*             "ended" after its return, "closed" once abandoned           *)
(*   deadline  None for an unbounded call                                  *)
(*   readAt    the time at which its last readline() began                 *)
(*   n         the number of events it has yielded                         *)
(*   event     the event it is suspended on                                *)
(***************************************************************************)
_DEFAULT_TIMEOUT == 2
_IDLE_SLEEP == 1

Max(a, b) == IF a >= b THEN a ELSE b

\* the lines the relay delivers to the consumers below
IterLines ==
    {encode_ascii(<<"r", ":", " ", "0", "a", "1", "b", "\n">>),
     encode_ascii(<<"s", "t", "a", "t", "u", "s", ":", " ", "a", "r", "m", "e", "d", "\r", "\n">>),
     encode_ascii(<<"s", "t", "a", "t", "u", "s", ":", "0", "a", "\n">>),
     encode_ascii(<<"h", "e", "l", "l", "o", " ", "w", "o", "r", "l", "d">>),
     encode_ascii(<<"\r", "\n">>)}

(***************************************************************************)
(* Inputs.  Constructor arguments are drawn per field from sample values   *)
(* of the field's declared width: the i-th sample of a width runs from its *)
(* minimum (i = 0) to its maximum (i = 3).                                 *)
(***************************************************************************)
U8(i) == (i * 85) % 256
U16(i) == (i * 21845) % 65536
I16(i) == U16(i) - 32768
U24(i) == (i * 5592405) % 16777216
U32(i) == Wide(U16(i), U16(i))
I32(i) == Wide(I16(i), U16(i))

Sample(kind, i) ==
    CASE kind = "u8" -> U8(i)
      [] kind = "u16" -> U16(i)
      [] kind = "i16" -> I16(i)
      [] kind = "u24" -> U24(i)
      [] kind = "u32" -> U32(i)
      [] kind = "i32" -> I32(i)

\* integers a caller may pass that need not fit the field
WildInts == <<40000, -1, 256, 70000, -32769, 16777221>>
Wild(kind, i) ==
    LET n == WildInts[(i % Len(WildInts)) + 1] IN
    IF kind \in {"u32", "i32"} THEN Wide(n, U16(i)) ELSE n

\* the keyword arguments of each constructor with their declared widths,
\* header first
Kwargs(cls) ==
    <<[name |-> "serial", kind |-> "i32"], [name |-> "time", kind |-> "i32"]>> \o
    CASE cls = "BotCommandPacket" ->
            <<[name |-> "command_type", kind |-> "u8"],
              [name |-> "motor1", kind |-> "i16"],
              [name |-> "motor2", kind |-> "i16"],
              [name |-> "motor3", kind |-> "i16"],
              [name |-> "motor4", kind |-> "i16"],
              [name |-> "duration", kind |-> "i16"],
              [name |-> "servo1", kind |-> "i16"],
              [name |-> "servo2", kind |-> "i16"],
              [name |-> "data1", kind |-> "i32"]>>
      [] cls = "BotStatusPacket" ->
            <<[name |-> "buttons", kind |-> "u8"],
              [name |-> "accel_x", kind |-> "i16"],
              [name |-> "accel_y", kind |-> "i16"],
              [name |-> "accel_z", kind |-> "i16"]>>
      [] cls = "DisplayPacket" ->
            <<[name |-> "tone", kind |-> "u8"],
              [name |-> "duration", kind |-> "u8"],
              [name |-> "image", kind |-> "u32"],
              [name |-> "head_lamp_left", kind |-> "u24"],
              [name |-> "head_lamp_right", kind |-> "u24"],
              [name |-> "neo_left", kind |-> "u24"],
              [name |-> "neo_right", kind |-> "u24"]>>
      [] cls = "HereIAmPacket" ->
            <<[name |-> "class_id", kind |-> "u8"],
              [name |-> "group", kind |-> "u16"],
              [name |-> "channel", kind |-> "u16"],
              [name |-> "flags", kind |-> "u16"],
              [name |-> "image", kind |-> "u32"]>>
      [] cls = "JoystickPacket" ->
            <<[name |-> "x", kind |-> "u16"],
              [name |-> "y", kind |-> "u16"],
              [name |-> "buttons", kind |-> "u8"],
              [name |-> "accel_x", kind |-> "i16"],
              [name |-> "accel_y", kind |-> "i16"],
              [name |-> "accel_z", kind |-> "i16"]>>

KwNames(cls) == {Kwargs(cls)[j].name : j \in 1..Len(Kwargs(cls))}
KwIndex(cls, n) == CHOOSE j \in 1..Len(Kwargs(cls)) : Kwargs(cls)[j].name = n
KwKind(cls, n) == Kwargs(cls)[KwIndex(cls, n)].kind

\* the record of the arguments, argument j having the value at[j]
ArgsRecord(cls, at) ==
    LET kws == Kwargs(cls)
    IN  [n \in {kws[j].name : j \in 1..Len(kws)} |->
            at[CHOOSE j \in 1..Len(kws) : kws[j].name = n]]

\* every argument left at its default of 0
Defaults(cls) ==
    LET kws == Kwargs(cls)
    IN  ArgsRecord(cls, [j \in 1..Len(kws) |->
                            IF kws[j].kind \in {"u32", "i32"} THEN W0 ELSE 0])

\* in-range arguments: argument j takes sample k + stride * (j - 1)
SampleArgs(cls, k, stride) ==
    LET kws == Kwargs(cls)
    IN  ArgsRecord(cls, [j \in 1..Len(kws) |->
                            Sample(kws[j].kind, (k + stride * (j - 1)) % NumSamples)])

\* one argument given as any integer, the others left at their defaults
WildArgs(cls, n, i) ==
    [Defaults(cls) EXCEPT ![n] = Wild(KwKind(cls, n), i)]

Strides == {0, 1}
UnknownTags == {0, 12, 255}
KnownTags == DOMAIN PACKET_CLASSES
MaxTotal == TOTAL_SIZE("BotCommandPacket")
TailBytes == {0, 255}
Tails == UNION {[1..n -> TailBytes] : n \in 1..MaxTail}

SeedByte(k) == (255 - k * 127) % 256
Steps == {0, 67}

\* bytes as they may arrive from the relay: a tag followed by a byte pattern
PatternBuf(tag, n, seed, step) ==
    [i \in 1..n |-> IF i = 1 THEN tag ELSE (SeedByte(seed) + (i - 2) * step) % 256]

(***************************************************************************)
(* The codec as a state machine.                                           *)
(*   kw    the keyword arguments of the last constructor call              *)
(*   pkt   the current packet object (NoPacket when the last call raised)  *)
(*   data  the current byte buffer                                         *)
(*   err   the exception raised by the last call ("" when none)            *)
(*   last  the last call made                                              *)
(*   sent  the packet whose encoding the buffer starts with                *)
(*   src   the buffer the current packet was decoded from                  *)
(*   peers PeerDB._peers                                                   *)
(***************************************************************************)
Call(op, cls) == [op |-> op, cls |-> cls]

\* the serial port as RRSerial.__init__ opens it, and the other serial
\* variables before any call is made
Opened == [rx |-> <<>>, out |-> <<>>, wire |-> <<>>]
IoCall(op, arg, ret) == [op |-> op, arg |-> arg, ret |-> ret]
NoGenerator ==
    [st |-> "none", deadline |-> None, readAt |-> None, n |-> 0, event |-> None]
NoHistory ==
    [kept |-> TRUE, arrived |-> <<>>, reads |-> <<>>, events |-> <<>>,
     logged |-> <<>>]
\* the same when no history is kept
Unkept == [NoHistory EXCEPT !.kept = FALSE]
NoJob ==
    [fn |-> "none", command |-> <<>>, timeout |-> None,
     st |-> "returned", ret |-> None]
NoProgram ==
    [fn |-> "none", pc |-> "none", i |-> 0, k |-> 0, note |-> "", err |-> ""]

InitBut ==
    /\ kw = NoArgs
    /\ pkt = NoPacket
    /\ data = <<>>
    /\ err = ""
    /\ last = Call("start", "")
    /\ sent = NoPacket
    /\ src = <<>>
    /\ peers = <<>>
    /\ port = Opened
    /\ io = IoCall("start", <<>>, <<>>)
    /\ now = 0
    /\ gen = NoGenerator
    /\ job = NoJob
    /\ prog = NoProgram

Init == InitBut /\ hist = NoHistory
\* the initial state when the history of the transport is not kept
InitUnkept == InitBut /\ hist = Unkept

Idle == last.op = "start"
HasBuffer == last.op \in {"recv", "pad"} \/ (last.op = "to_bytes" /\ err = "")
\* the buffer is the encoding of a packet the program built
Canonical == last.op = "to_bytes" /\ err = "" /\ src = <<>>

\* p = cls(**kwargs) with every argument within its declared width
Construct(cls, k, stride) ==
    LET a == SampleArgs(cls, k, stride)
        r == New(cls, None, a)
    IN  /\ Idle
        /\ kw' = [cls |-> cls, args |-> a]
        /\ pkt' = r.val
        /\ err' = r.err
        /\ last' = Call("init", cls)
        /\ data' = <<>>
        /\ sent' = NoPacket
        /\ src' = <<>>
        /\ UNCHANGED <<peers, serialVars>>

\* p = cls(name=value) with one argument that need not fit its field
ConstructWith(cls, n, i) ==
    LET a == WildArgs(cls, n, i)
        r == New(cls, None, a)
    IN  /\ Idle
        /\ kw' = [cls |-> cls, args |-> a]
        /\ pkt' = r.val
        /\ err' = r.err
        /\ last' = Call("init", cls)
        /\ data' = <<>>
        /\ sent' = NoPacket
        /\ src' = <<>>
        /\ UNCHANGED <<peers, serialVars>>

\* p = RawRadioPacket(packet_type, payload, time, serial)
ConstructRaw(t, n, k) ==
    LET payload == [i \in 1..n |-> U8(k + i)]
    IN  /\ Idle
        /\ kw' = [cls |-> "RawRadioPacket",
                  args |-> [packet_type |-> t, payload |-> payload,
                            time |-> I32(k), serial |-> I32(k + 1)]]
        /\ pkt' = RawRadioPacket(t, payload, I32(k), I32(k + 1))
        /\ err' = ""
        /\ last' = Call("init", "RawRadioPacket")
        /\ data' = <<>>
        /\ sent' = NoPacket
        /\ src' = <<>>
        /\ UNCHANGED <<peers, serialVars>>

\* data = p.to_bytes()
ToBytes ==
    /\ pkt # NoPacket
    /\ LET r == to_bytes(pkt)
       IN  /\ data' = r.val
           /\ err' = r.err
           /\ sent' = IF r.err = "" THEN pkt ELSE NoPacket
    /\ last' = Call("to_bytes", pkt.cls)
    /\ UNCHANGED <<kw, pkt, src, peers, serialVars>>

\* bytes of an "r" frame arrive from the relay
Receive(tag, n, seed, step) ==
    /\ Idle
    /\ data' = PatternBuf(tag, n, seed, step)
    /\ kw' = NoArgs
    /\ pkt' = NoPacket
    /\ err' = ""
    /\ last' = Call("recv", "")
    /\ sent' = NoPacket
    /\ src' = <<>>
    /\ UNCHANGED <<peers, serialVars>>

\* the framing appends trailing bytes to an encoded packet
Pad(t) ==
    /\ Canonical
    /\ data' = data \o t
    /\ last' = Call("pad", last.cls)
    /\ UNCHANGED <<kw, pkt, err, sent, src, peers, serialVars>>

\* p = parse_packet(data)
ParsePacket ==
    /\ HasBuffer
    /\ LET r == parse_packet(data)
       IN  /\ pkt' = r.val
           /\ err' = r.err
    /\ src' = data
    /\ last' = Call("parse_packet", "")
    /\ UNCHANGED <<kw, data, sent, peers, serialVars>>

\* p = cls.from_bytes(data)
FromBytes(cls) ==
    /\ HasBuffer
    /\ LET r == from_bytes(cls, data)
       IN  /\ pkt' = r.val
           /\ err' = r.err
    /\ src' = data
    /\ last' = Call("from_bytes", cls)
    /\ UNCHANGED <<kw, data, sent, peers, serialVars>>

\* the program drops the packet and the buffer and starts over
Reset ==
    /\ ~Idle
    /\ kw' = NoArgs
    /\ pkt' = NoPacket
    /\ data' = <<>>
    /\ err' = ""
    /\ last' = Call("start", "")
    /\ sent' = NoPacket
    /\ src' = <<>>
    /\ UNCHANGED <<peers, serialVars>>

Next ==
    \/ \E cls \in FixedClasses, k \in 0..(NumSamples - 1), stride \in Strides :
          Construct(cls, k, stride)
    \/ \E cls \in FixedClasses :
          \E n \in KwNames(cls), i \in 0..(Len(WildInts) - 1) :
             ConstructWith(cls, n, i)
    \/ \E t \in UnknownTags, n \in 0..MaxPayload, k \in 0..(NumSamples - 1) :
          ConstructRaw(t, n, k)
    \/ ToBytes
    \/ \E tag \in KnownTags \cup UnknownTags, n \in 0..(MaxTotal + MaxTail),
          seed \in 0..(NumSeeds - 1), step \in Steps :
          Receive(tag, n, seed, step)
    \/ \E t \in Tails : Pad(t)
    \/ ParsePacket
    \/ \E cls \in Classes : FromBytes(cls)
    \/ Reset

Spec == Init /\ [][Next]_vars

(***************************************************************************)
(* The peer store as a state machine: pkt is the argument of the last add. *)
(***************************************************************************)
PeerAdd(cls, k, stride) ==
    LET p == IF cls = "RawRadioPacket"
             THEN RawRadioPacket(U8(k), <<U8(stride)>>, I32(k + 1), I32(k))
             ELSE New(cls, None, SampleArgs(cls, k, stride)).val
        r == PeerDB_add(peers, p)
    IN  /\ pkt' = p
        /\ err' = r.err
        /\ peers' = r.peers
        /\ last' = Call("add", cls)
        /\ UNCHANGED <<kw, data, sent, src, serialVars>>

PeerClear ==
    /\ peers' = PeerDB_clear(peers)
    /\ pkt' = NoPacket
    /\ err' = ""
    /\ last' = Call("clear", "")
    /\ UNCHANGED <<kw, data, sent, src, serialVars>>

PeerNext ==
    \/ \E cls \in Classes, k \in 0..(NumSamples - 1), stride \in Strides :
          PeerAdd(cls, k, stride)
    \/ PeerClear

SpecPeer == Init /\ [][PeerNext]_vars

(***************************************************************************)
(* The transport one call at a time: a line is read and classified, or a   *)
(* payload is sent.                                                        *)
(*   port  self._serial: rx the lines waiting to be read, out the chunks   *)
(*         written and not yet flushed, wire the chunks flushed            *)
(*   io    the last call made on the transport, its argument and result    *)
(***************************************************************************)
\* number of send calls made on one open port
MaxWrites == 2

LinePrefixes ==
    {<<>>,
     <<" ">>,
     <<"r">>,
     <<"R">>,
     <<" ", "r", " ">>,
     <<"s">>,
     <<"s", "t", "a", "t", "u", "s">>,
     <<" ", "S", "t", "a", "t", "u", "s", " ">>,
     <<"L", "O", "G">>}
LineRests ==
    {<<>>,
     <<" ", "0", "a", "1", "b">>,
     <<"0", "a", " ", "1", "b", " ">>,
     <<" ", "0", "A", "1", "B">>,
     <<" ", "z", "z">>,
     <<" ", "0", "a", "1">>,
     <<" ", "a", "r", "m", "e", "d">>,
     <<" ", "a", ":", "b">>,
     <<"h", "e", "l", "l", "o", " ", "w", "o", "r", "l", "d">>}
LineEnds == {<<>>, <<10>>, <<13, 10>>}
\* a byte that is not valid UTF-8 may precede the end of the line
LineJunk == {<<>>, <<255>>}

\* the lines the relay may deliver, as bytes
Lines ==
    {encode_ascii(p \o c \o r) \o j \o e :
        p \in LinePrefixes, c \in {<<>>, <<":">>}, r \in LineRests,
        j \in LineJunk, e \in LineEnds}

BytePayloads ==
    {<<>>, <<10>>, <<10, 27>>, <<0, 255>>, <<222, 173, 190, 239>>}
TextPayloads ==
    {<<>>,
     <<" ">>,
     <<"0", "a", "1", "b">>,
     <<" ", "0", "a", " ", "1", "b", " ">>,
     <<"D", "E", " ", "A", "D">>,
     <<"c", "a", "f", "e", "f", "o", "o", "d">>}

\* self._serial.write(b) and self._serial.flush()
Serial_write(p, b) == [p EXCEPT !.out = Append(@, b)]
Serial_flush(p) == [p EXCEPT !.wire = @ \o p.out, !.out = <<>>]

\* the line l is read from the stream and iter runs on it up to its yield
Classify(l) ==
    /\ io.op = "start"
    /\ io' = IoCall("iter", l, iter_event(l))
    /\ UNCHANGED <<port, now, gen, hist, job, prog>>
    /\ UNCHANGED codecVars

\* command = relay.send(payload)
Send(payload) ==
    LET r == RRSerial_send(payload, CMD_SEND) IN
    /\ io.op \in {"start", "send"}
    /\ Len(port.wire) + Len(port.out) < MaxWrites
    /\ port' = Serial_flush(Serial_write(port, r.write))
    /\ io' = IoCall("send", payload, r.ret)
    /\ UNCHANGED <<now, gen, hist, job, prog>>
    /\ UNCHANGED codecVars

\* the port is closed and opened again
Reopen ==
    /\ io.op # "start"
    /\ port' = Opened
    /\ io' = IoCall("start", <<>>, <<>>)
    /\ UNCHANGED <<now, gen, hist, job, prog>>
    /\ UNCHANGED codecVars

LineNext ==
    \/ \E l \in Lines : Classify(l)
    \/ \E b \in BytePayloads : Send(Bytes(b))
    \/ \E t \in TextPayloads : Send(Str(t))
    \/ Reopen

SpecLine == Init /\ [][LineNext]_vars

(***************************************************************************)
(* The packets send_structured_packets sends and the lines the relay may   *)
(* answer with.                                                            *)
(***************************************************************************)
RESPONSE_TIMEOUT == 40
\* pump_serial(relay, 0.2)
PumpWindow == 4

STRUCTURED_PACKET_CLASSES ==
    <<"BotCommandPacket", "BotStatusPacket", "DisplayPacket",
      "HereIAmPacket", "JoystickPacket">>

\* random_structured_packet(packet_cls), the random draws being sample k
random_args(cls, k) ==
    LET a == SampleArgs(cls, k, 1)
    IN  IF cls = "JoystickPacket"
        THEN [a EXCEPT !.x = @ % 1024, !.y = @ % 1024,
                       !.accel_x = (@ % 2048) - 1024,
                       !.accel_y = (@ % 2048) - 1024,
                       !.accel_z = (@ % 2048) - 1024]
        ELSE a
random_structured_packet(cls, k) == New(cls, None, random_args(cls, k)).val

\* compare_packet_fields(expected, actual, fields): the fields that differ
compare_packet_fields(expected, actual) ==
    {f \in DOMAIN expected \ {"cls"} : expected[f] # actual[f]}

\* the random draws of random_structured_packet
MaxDraws == 2
Draws == FixedClasses \X (0..(MaxDraws - 1))
Unasked == <<"HereIAmPacket", 0>>

\* The tables below are worked out once, each from the one before; f @@ <<>>
\* is f, held as the table of its values.
\* draw d[2] of a packet of class d[1]
DrawnPacket ==
    [d \in Draws |-> [args |-> random_args(d[1], d[2]),
                      packet |-> random_structured_packet(d[1], d[2])]]

\* ... with packet.to_bytes()
WithBytes(e) == [args |-> e.args, packet |-> e.packet, bytes |-> to_bytes(e.packet)]
DrawnBytes == [d \in Draws |-> WithBytes(DrawnPacket[d])]

\* an "r" line carrying the bytes b
Frame(b) == encode_ascii(CMD_RECEIVE \o <<" ">> \o bytes_hex(b)) \o <<10>>

\* ... with what relay.send writes and returns for it, the line that echoes
\* it and that line cut off after the header
WithFrames(e) ==
    [args |-> e.args, packet |-> e.packet, bytes |-> e.bytes,
     send |-> RRSerial_send(Bytes(e.bytes.val), CMD_SEND),
     echo |-> Frame(e.bytes.val),
     cut |-> Frame(SubSeq(e.bytes.val, 1, HEADER_SIZE))]
DrawnFrames == [d \in Draws |-> WithFrames(DrawnBytes[d])]

BadHex == encode_ascii(<<"r", ":", " ", "z", "z", "\n">>)
Booted == encode_ascii(<<"b", "o", "o", "t", "e", "d", "\r", "\n">>)

\* the lines the relay may deliver before any packet is sent: a HereIAmPacket
\* the device sends unasked, whole or cut off, a frame that is not hex, a log
IdleLines(F) == {F[Unasked].echo, F[Unasked].cut, BadHex, Booted}
\* ... and once the draw d was sent: its echo, the echo of another packet of
\* its class, its echo cut off, and the same lines as before
RelayLines(F, d) ==
    {F[d].echo, F[<<d[1], 0>>].echo, F[d].cut, F[Unasked].echo, BadHex, Booted}

WithLines(F, d) ==
    [args |-> F[d].args, packet |-> F[d].packet, bytes |-> F[d].bytes,
     send |-> F[d].send, lines |-> RelayLines(F, d), idle |-> IdleLines(F)]
Drawn == [d \in Draws |-> WithLines(DrawnFrames, d)] @@ <<>>

LinesOf(D) == UNION {D[d].lines \cup D[d].idle : d \in DOMAIN D}
AllRelayLines == LinesOf(Drawn)

\* iter_event on the lines delivered
EventOfLine ==
    [l \in IterLines \cup AllRelayLines \cup {<<>>} |-> iter_event(l)] @@ <<>>
Yielded(l) == EventOfLine[l]

\* parse_packet on the bytes the frames carry
ReceivedBytes(D) ==
    UNION {{D[d].bytes.val, SubSeq(D[d].bytes.val, 1, HEADER_SIZE), <<>>} :
              d \in DOMAIN D}
ParsedBytes == [b \in ReceivedBytes(Drawn) |-> parse_packet(b)] @@ <<>>
Parsed(b) == ParsedBytes[b]

\* relay.iter(timeout) up to the loop: deadline = now + max(0.0, timeout)
RRSerial_iter(timeout, t) ==
    [st |-> "running",
     deadline |-> IF timeout = None THEN None ELSE Some(t + Max(0, timeout[1])),
     readAt |-> None, n |-> 0, event |-> None]

\* self._serial.readline(): the next line waiting, b"" when the read times out
Serial_readline(p) ==
    IF p.rx = <<>>
    THEN [line |-> <<>>, port |-> p]
    ELSE [line |-> Head(p.rx), port |-> [p EXCEPT !.rx = Tail(@)]]

\* a pass of the loop of iter that reads: r is what readline() gave, e the
\* event of the line read, after the clock when the pass is over
iter_pass(g, r, e, t, after) ==
    [gen |-> [g EXCEPT !.st = IF e = None THEN "running" ELSE "yielded",
                       !.readAt = Some(t),
                       !.n = IF e = None THEN @ ELSE @ + 1,
                       !.event = e],
     port |-> r.port,
     now |-> IF g.deadline = None THEN t ELSE after,
     line |-> r.line]

iter_read(g, r, t, d) ==
    iter_pass(g, r, Yielded(r.line), t,
              IF r.line = <<>> THEN t + _DEFAULT_TIMEOUT + _IDLE_SLEEP ELSE t + d)

\* mutant: the deadline is looked at after the read, and a line read past
\* it is not yielded
iter_next_check_after_read(g, p, t, d) ==
    LET r == Serial_readline(p)
        e == Yielded(r.line)
        after == IF r.line = <<>> THEN t + _DEFAULT_TIMEOUT + _IDLE_SLEEP
                 ELSE t + d
    IN  IF g.deadline # None /\ after >= g.deadline[1]
        THEN [gen |-> [g EXCEPT !.st = "ended", !.event = None,
                                !.readAt = Some(t)],
              port |-> r.port, now |-> after, line |-> r.line]
        ELSE [gen |-> [g EXCEPT !.st = IF e = None THEN "running" ELSE "yielded",
                                !.readAt = Some(t),
                                !.n = IF e = None THEN @ ELSE @ + 1,
                                !.event = e],
              port |-> r.port,
              now |-> IF g.deadline = None THEN t ELSE after,
              line |-> r.line]

\* mutant: the call ends only when the clock is past the deadline
iter_next_late_deadline(g, p, t, d) ==
    IF g.deadline # None /\ t > g.deadline[1]
    THEN [gen |-> [g EXCEPT !.st = "ended", !.event = None],
          port |-> p, now |-> t, line |-> <<>>]
    ELSE LET r == Serial_readline(p)
             e == Yielded(r.line)
             after == IF r.line = <<>> THEN t + _DEFAULT_TIMEOUT + _IDLE_SLEEP
                      ELSE t + d
         IN  [gen |-> [g EXCEPT !.st = IF e = None THEN "running" ELSE "yielded",
                                !.readAt = Some(t),
                                !.n = IF e = None THEN @ ELSE @ + 1,
                                !.event = e],
              port |-> r.port,
              now |-> IF g.deadline = None THEN t ELSE after,
              line |-> r.line]

\* one pass of the loop of RRSerial.iter, the read taking d ticks when a line
\* is waiting: the generator, the port and the clock after it, and the line
\* read (b"" when none was)
iter_next(g, p, t, d) ==
    IF g.deadline # None /\ t >= g.deadline[1]
    THEN [gen |-> [g EXCEPT !.st = "ended", !.event = None],
          port |-> p, now |-> t, line |-> <<>>]
    ELSE iter_read(g, Serial_readline(p), t, d)

(***************************************************************************)
(* The transport read through pump_serial and wait_for_response.           *)
(*   now   time.monotonic(), from the start of the current iter call       *)
(*   gen   the generator the current consumer iterates                     *)
(*   job   the consumer call in progress or last returned                  *)
(*   hist  the lines delivered to the port, the lines read from it, the    *)
(*         events yielded and the events given to log_event, each in       *)
(*         order, since the input was reset                                *)
(***************************************************************************)
\* lines waiting in the port at a time
MaxQueue == 2
\* lines delivered between two resets of the input
MaxLines == 3

PumpDurations == {-1, 0, 2}
WaitTimeouts == {-1, 0, 3}
STATUS == <<"s", "t", "a", "t", "u", "s">>
WaitCommands == {R, STATUS}

Job(fn, command, timeout) ==
    [fn |-> fn, command |-> command, timeout |-> timeout,
     st |-> "running", ret |-> None]

\* log_event(command, data)
log_event(h, e) ==
    IF h.kept THEN [h EXCEPT !.logged = Append(@, e)] ELSE h

\* what iter did in one pass, added to the history
Recorded(h, line, e) ==
    IF h.kept
    THEN [h EXCEPT !.reads = IF line = <<>> THEN @ ELSE Append(@, line),
                   !.events = @ \o e]
    ELSE h

\* mutant: the data of the matching event is returned whatever its type
wait_for_response_return_any(e) == Some(e.data.val)

\* wait_for_response, lines 171-178: the value returned for a matching event
wait_for_response_return(e) ==
    IF e.data.type = "bytes"
    THEN Some(e.data.val)
    ELSE LET decoded == bytes_fromhex(replace_spaces(e.data.val))
         IN  IF decoded.err # "" THEN None ELSE Some(decoded.val)

NoCall == prog.fn = "none" /\ job.st = "returned"

\* the relay delivers a line
Arrive(l) ==
    /\ Len(port.rx) < MaxQueue
    /\ hist.kept => Len(hist.arrived) < MaxLines
    /\ port' = [port EXCEPT !.rx = Append(@, l)]
    /\ hist' = IF hist.kept THEN [hist EXCEPT !.arrived = Append(@, l)] ELSE hist
    /\ UNCHANGED <<io, now, gen, job, prog>>
    /\ UNCHANGED codecVars

\* pump_serial(relay, duration), up to its loop
PumpSerial(duration) ==
    LET timeout == Some(IF duration <= 0 THEN 0 ELSE duration) IN
    /\ NoCall
    /\ job' = Job("pump_serial", <<>>, timeout)
    /\ now' = 0
    /\ gen' = RRSerial_iter(timeout, 0)
    /\ UNCHANGED <<port, io, hist, prog>>
    /\ UNCHANGED codecVars

\* wait_for_response(relay, command, timeout), up to its loop
WaitForResponse(command, timeout) ==
    /\ NoCall
    /\ job' = Job("wait_for_response", command, Some(timeout))
    /\ now' = 0
    /\ gen' = RRSerial_iter(Some(timeout), 0)
    /\ UNCHANGED <<port, io, hist, prog>>
    /\ UNCHANGED codecVars

\* next(generator): one pass of the loop of iter; when no history is kept
\* the events of the call are not counted past the first
IterStep(d) ==
    /\ gen.st = "running"
    /\ \E r \in {iter_next(gen, port, now, d)} :
          /\ gen' = IF hist.kept THEN r.gen
                    ELSE [r.gen EXCEPT !.n = IF @ > 0 THEN 1 ELSE 0]
          /\ port' = r.port
          /\ now' = r.now
          /\ hist' = Recorded(hist, r.line, r.gen.event)
    /\ UNCHANGED <<io, job, prog>>
    /\ UNCHANGED codecVars

\* the body of the loop of pump_serial, then next(generator)
PumpBody ==
    /\ job.fn = "pump_serial" /\ job.st = "running"
    /\ gen.st = "yielded"
    /\ hist' = log_event(hist, gen.event[1])
    /\ gen' = [gen EXCEPT !.st = "running"]
    /\ UNCHANGED <<port, io, now, job, prog>>
    /\ UNCHANGED codecVars

\* the body of the loop of wait_for_response, then return or next(generator)
WaitBody ==
    LET e == gen.event[1] IN
    /\ job.fn = "wait_for_response" /\ job.st = "running"
    /\ gen.st = "yielded"
    /\ hist' = log_event(hist, e)
    /\ IF e.command = job.command
       THEN /\ job' = [job EXCEPT !.st = "returned",
                                  !.ret = wait_for_response_return(e)]
            /\ gen' = [gen EXCEPT !.st = "closed"]
       ELSE /\ gen' = [gen EXCEPT !.st = "running"]
            /\ UNCHANGED job
    /\ UNCHANGED <<port, io, now, prog>>
    /\ UNCHANGED codecVars

\* the generator has ended: the loop is left and the consumer returns None
ConsumerReturn ==
    /\ job.fn \in {"pump_serial", "wait_for_response"} /\ job.st = "running"
    /\ gen.st = "ended"
    /\ job' = [job EXCEPT !.st = "returned", !.ret = None]
    /\ UNCHANGED <<port, io, now, gen, hist, prog>>
    /\ UNCHANGED codecVars

\* relay.reset_input_buffer()
ResetInput ==
    /\ NoCall
    /\ hist.arrived # <<>> \/ port.rx # <<>>
    /\ port' = [port EXCEPT !.rx = <<>>]
    /\ hist' = [NoHistory EXCEPT !.kept = hist.kept]
    /\ job' = NoJob
    /\ gen' = NoGenerator
    /\ now' = 0
    /\ UNCHANGED <<io, prog>>
    /\ UNCHANGED codecVars

IterNext ==
    \/ \E l \in IterLines : Arrive(l)
    \/ \E duration \in PumpDurations : PumpSerial(duration)
    \/ \E command \in WaitCommands, timeout \in WaitTimeouts :
          WaitForResponse(command, timeout)
    \/ \E d \in 1.._DEFAULT_TIMEOUT : IterStep(d)
    \/ PumpBody
    \/ WaitBody
    \/ ConsumerReturn
    \/ ResetInput

SpecIter == Init /\ [][IterNext]_vars

\* the steps of the program, as opposed to those of the relay and the caller
IterProgram ==
    \/ \E d \in 1.._DEFAULT_TIMEOUT : IterStep(d)
    \/ PumpBody
    \/ WaitBody
    \/ ConsumerReturn

\* The program runs on: a step of it that can be taken is taken.  No history
\* is kept, so that lines may be delivered without end.
FairIter ==
    /\ InitUnkept /\ [][IterNext]_vars
    /\ WF_vars(IterProgram)

(***************************************************************************)
(* The two consumer programs of test_relay.py, started by main once the    *)
(* port is open.                                                           *)
(*   prog  the program running: where it stands (pc), the index i of the   *)
(*         packet class it is at and the draw k of the packet it sent,     *)
(*         its last report (note) and the error that left it (err)         *)
(* The codec variables hold the packet sent (sent), the bytes last         *)
(* received (data) and the packet decoded from them (pkt).  The counters   *)
(* of the statistics are not kept, nor is --count: after the last class    *)
(* either another iteration follows or none.                               *)
(***************************************************************************)
\* lines waiting in the port while a program runs
MaxPending == 1

InSend == prog.fn = "send_structured_packets"
InEcho == prog.fn = "echo_packets"
PacketClass == STRUCTURED_PACKET_CLASSES[prog.i]

\* main with --packets: reset_input_buffer(), then send_structured_packets
\* up to the loop of its pump_serial(relay, 0.2)
MainPackets ==
    /\ NoCall
    /\ port' = [port EXCEPT !.rx = <<>>]
    /\ prog' = [NoProgram EXCEPT !.fn = "send_structured_packets",
                                 !.pc = "pump"]
    /\ job' = Job("pump_serial", <<>>, Some(PumpWindow))
    /\ now' = 0
    /\ gen' = RRSerial_iter(Some(PumpWindow), 0)
    /\ UNCHANGED <<io, hist>>
    /\ UNCHANGED codecVars

\* main with --echo: reset_input_buffer(), then echo_packets up to the first
\* next() of its loop over the relay
MainEcho ==
    /\ NoCall
    /\ port' = [port EXCEPT !.rx = <<>>]
    /\ prog' = [NoProgram EXCEPT !.fn = "echo_packets", !.pc = "for"]
    /\ gen' = RRSerial_iter(None, 0)
    /\ UNCHANGED <<io, now, hist, job>>
    /\ UNCHANGED codecVars

\* the relay delivers a line while a program runs
RelayArrive(l) ==
    /\ prog.fn # "none"
    /\ Len(port.rx) < MaxPending
    /\ \E draw \in {Drawn[IF sent = NoPacket THEN Unasked
                           ELSE <<sent.cls, prog.k>>]} :
          l \in (IF sent = NoPacket THEN draw.idle ELSE draw.lines)
    /\ Arrive(l)

\* pump_serial has returned: the first iteration begins
PumpDone ==
    /\ InSend /\ prog.pc = "pump" /\ job.st = "returned"
    /\ prog' = [prog EXCEPT !.pc = "for", !.i = 1]
    /\ UNCHANGED <<port, io, now, gen, hist, job>>
    /\ UNCHANGED codecVars

\* the classes are used up: the next iteration, or the statistics and return
NextIteration(more) ==
    /\ InSend /\ prog.pc = "for"
    /\ prog.i > Len(STRUCTURED_PACKET_CLASSES)
    /\ prog' = IF more THEN [prog EXCEPT !.i = 1]
               ELSE [prog EXCEPT !.pc = "returned"]
    /\ UNCHANGED <<port, io, now, gen, hist, job>>
    /\ UNCHANGED codecVars

\* if packet_cls is HereIAmPacket: continue
SkipHereIAm ==
    /\ InSend /\ prog.pc = "for"
    /\ prog.i <= Len(STRUCTURED_PACKET_CLASSES)
    /\ PacketClass = "HereIAmPacket"
    /\ prog' = [prog EXCEPT !.i = @ + 1, !.note = "skipped"]
    /\ UNCHANGED <<port, io, now, gen, hist, job>>
    /\ UNCHANGED codecVars

\* a packet is drawn, encoded and sent, and wait_for_response is called; the
\* device has taken the line sent before off the wire
SendPacket(k) ==
    /\ InSend /\ prog.pc = "for"
    /\ prog.i <= Len(STRUCTURED_PACKET_CLASSES)
    /\ PacketClass # "HereIAmPacket"
    /\ \E draw \in {Drawn[<<PacketClass, k>>]} :
          /\ kw' = [cls |-> PacketClass, args |-> draw.args]
          /\ pkt' = draw.packet
          /\ sent' = draw.packet
          /\ data' = draw.bytes.val
          /\ err' = draw.bytes.err
          /\ port' = Serial_flush(Serial_write([port EXCEPT !.wire = <<>>],
                                               draw.send.write))
          /\ io' = IoCall("send", Bytes(draw.bytes.val), draw.send.ret)
    /\ last' = Call("to_bytes", PacketClass)
    /\ src' = <<>>
    /\ prog' = [prog EXCEPT !.pc = "wait", !.k = k, !.note = ""]
    /\ job' = Job("wait_for_response", R, Some(RESPONSE_TIMEOUT))
    /\ now' = 0
    /\ gen' = RRSerial_iter(Some(RESPONSE_TIMEOUT), 0)
    /\ UNCHANGED <<hist, peers>>

\* wait_for_response has returned inside the while True loop, lines 311-321,
\* and, the loop left, lines 324-337.  A ValueError of parse_packet is caught
\* nowhere in send_structured_packets: it leaves the program through main,
\* which reports it and exits.
Response ==
    /\ InSend /\ prog.pc = "wait" /\ job.st = "returned"
    /\ IF job.ret = None
       THEN /\ prog' = [prog EXCEPT !.pc = "for", !.i = @ + 1,
                                    !.note = "timeout"]
            /\ UNCHANGED <<now, gen, job>>
            /\ UNCHANGED codecVars
       ELSE \E received \in {Parsed(job.ret[1])} :
            /\ data' = job.ret[1]
            /\ src' = job.ret[1]
            /\ pkt' = received.val
            /\ err' = received.err
            /\ last' = Call("parse_packet", "")
            /\ UNCHANGED <<kw, sent, peers>>
            /\ IF received.err # ""
               THEN /\ prog' = [prog EXCEPT !.pc = "raised",
                                            !.err = received.err]
                    /\ UNCHANGED <<now, gen, job>>
               ELSE IF received.val.cls # PacketClass
               THEN /\ prog' = [prog EXCEPT !.note = "unexpected"]
                    /\ job' = Job("wait_for_response", R, Some(RESPONSE_TIMEOUT))
                    /\ now' = 0
                    /\ gen' = RRSerial_iter(Some(RESPONSE_TIMEOUT), 0)
               ELSE /\ prog' = [prog EXCEPT
                                  !.pc = "for", !.i = @ + 1,
                                  !.note = IF compare_packet_fields(sent, received.val) = {}
                                           THEN "validated" ELSE "mismatch"]
                    /\ UNCHANGED <<now, gen, job>>
    /\ UNCHANGED <<port, io, hist>>

\* the body of the loop of echo_packets, then next(generator); the ValueError
\* of parse_packet is caught and reported
EchoBody ==
    /\ InEcho /\ gen.st = "yielded"
    /\ \E e \in {gen.event[1]} :
          IF e.command # R
          THEN /\ hist' = log_event(hist, e)
               /\ prog' = [prog EXCEPT !.note = "log"]
               /\ UNCHANGED codecVars
          ELSE IF e.data.type = "bytes" /\ e.data.val # <<>>
          THEN \E packet \in {Parsed(e.data.val)} :
               /\ data' = e.data.val
               /\ src' = e.data.val
               /\ pkt' = packet.val
               /\ err' = packet.err
               /\ last' = Call("parse_packet", "")
               /\ prog' = [prog EXCEPT !.note = IF packet.err # ""
                                                THEN "parse-error"
                                                ELSE "packet"]
               /\ UNCHANGED <<kw, sent, peers, hist>>
          ELSE /\ prog' = [prog EXCEPT !.note = "empty packet"]
               /\ UNCHANGED hist
               /\ UNCHANGED codecVars
    /\ gen' = [gen EXCEPT !.st = "running"]
    /\ UNCHANGED <<port, io, now, job>>

\* the steps of the program
RelayProgram ==
    \/ \E d \in 1.._DEFAULT_TIMEOUT : IterStep(d)
    \/ PumpBody
    \/ WaitBody
    \/ ConsumerReturn
    \/ PumpDone
    \/ \E more \in BOOLEAN : NextIteration(more)
    \/ SkipHereIAm
    \/ \E k \in 0..(MaxDraws - 1) : SendPacket(k)
    \/ Response
    \/ EchoBody

RelayNext ==
    \/ MainPackets
    \/ MainEcho
    \/ \E l \in AllRelayLines : RelayArrive(l)
    \/ RelayProgram

\* No history of the transport is kept: the relay may deliver lines without
\* end.
SpecRelay == InitUnkept /\ [][RelayNext]_vars

\* The program runs on: a step of it that can be taken is taken.  Nothing is
\* asked of the relay.
FairRelay == SpecRelay /\ WF_vars(RelayProgram)

(***************************************************************************)
(* Declared widths, as the claims speak of them.                           *)
(***************************************************************************)
InWidth(kind, v) ==
    CASE kind = "u8" -> v \in 0..255
      [] kind = "u16" -> v \in 0..65535
      [] kind = "i16" -> v \in -32768..32767
      [] kind = "u24" -> v \in 0..16777215
      [] kind = "u32" -> v.hi \in 0..65535
      [] kind = "i32" -> v.hi \in -32768..32767

\* v wrapped to the width: the unique value of the width congruent to v
WrapTo(kind, v) ==
    CASE kind = "u8" -> v % 256
      [] kind = "u16" -> v % 65536
      [] kind = "i16" -> ((v + 32768) % 65536) - 32768
      [] kind = "u24" -> v % 16777216
      [] kind = "u32" -> Wide(v.hi % 65536, v.lo)
      [] kind = "i32" -> Wide(((v.hi + 32768) % 65536) - 32768, v.lo)

ArgsInWidth(k) ==
    \A n \in KwNames(k.cls) : InWidth(KwKind(k.cls, n), k.args[n])

\* the buffer is exactly the encoding of the packet built from kw
Encoded ==
    /\ kw.cls \in FixedClasses
    /\ sent = New(kw.cls, None, kw.args).val
    /\ data = to_bytes(sent).val

SameFields(p, q) ==
    /\ DOMAIN p = DOMAIN q
    /\ \A f \in DOMAIN q : p[f] = q[f]

(***************************************************************************)
(* C1  Round trip: a packet of one of the five fixed variants built from   *)
(* field values within their declared widths keeps those values, encodes   *)
(* without error, and parse_packet of its encoding returns a packet of the *)
(* same variant with every header and payload field equal.                 *)
(***************************************************************************)
C1_RoundTrip ==
    /\ (/\ last.op = "to_bytes" /\ src = <<>>
        /\ kw.cls \in FixedClasses /\ ArgsInWidth(kw))
       => (/\ err = ""
           /\ \A n \in KwNames(kw.cls) : pkt[n] = kw.args[n])
    /\ (last.op = "parse_packet" /\ Encoded /\ ArgsInWidth(kw))
       => (/\ err = ""
           /\ pkt.cls = kw.cls
           /\ SameFields(pkt, sent))

C1_Witness ==
    /\ last.op = "parse_packet"
    /\ Encoded /\ ArgsInWidth(kw)
    /\ kw.cls = "BotCommandPacket"
    /\ sent.motor1 = -32768 /\ sent.motor4 = 32767
    /\ pkt = sent

(***************************************************************************)
(* C2  Every integer field is masked to its declared width on construction *)
(* and on encode: a constructor given any integers succeeds and stores     *)
(* each value wrapped to its field's width, to_bytes of that packet        *)
(* succeeds, and parse_packet of the bytes gives the stored values.        *)
(***************************************************************************)
C2_MaskedOnConstructAndEncode ==
    /\ (last.op = "init" /\ kw.cls \in FixedClasses)
       => (/\ err = ""
           /\ \A n \in KwNames(kw.cls) :
                 pkt[n] = WrapTo(KwKind(kw.cls, n), kw.args[n]))
    /\ (last.op = "to_bytes" /\ src = <<>> /\ kw.cls \in FixedClasses)
       => err = ""
    /\ (last.op = "parse_packet" /\ Encoded)
       => (err = "" /\ SameFields(pkt, sent))

(***************************************************************************)
(* C3  The encoded length is fixed by the variant.                         *)
(* As claimed: Announce 18, Display 24, BotCommand 22 or 28, BotStatus 15, *)
(* Joystick 19, Raw 9 + len(payload).                                      *)
(* As the code has it: Announce 20, Display 27, BotCommand 28, BotStatus   *)
(* 16, Joystick 20, Raw 9 + len(payload), and each equals the class's      *)
(* TOTAL_SIZE.                                                             *)
(***************************************************************************)
ClaimedSizes(p) ==
    CASE p.cls = "HereIAmPacket" -> {18}
      [] p.cls = "DisplayPacket" -> {24}
      [] p.cls = "BotCommandPacket" -> {22, 28}
      [] p.cls = "BotStatusPacket" -> {15}
      [] p.cls = "JoystickPacket" -> {19}
      [] p.cls = "RawRadioPacket" -> {9 + Len(p.payload)}

ActualSize(p) ==
    CASE p.cls = "HereIAmPacket" -> 20
      [] p.cls = "DisplayPacket" -> 27
      [] p.cls = "BotCommandPacket" -> 28
      [] p.cls = "BotStatusPacket" -> 16
      [] p.cls = "JoystickPacket" -> 20
      [] p.cls = "RawRadioPacket" -> 9 + Len(p.payload)

C3_ClaimedLength ==
    (last.op = "to_bytes" /\ err = "") => Len(data) \in ClaimedSizes(pkt)

C3_EncodedLength ==
    (last.op = "to_bytes" /\ err = "")
       => (/\ Len(data) = ActualSize(pkt)
           /\ pkt.cls \in FixedClasses => Len(data) = TOTAL_SIZE(pkt.cls))

C3_Witness ==
    /\ last.op = "to_bytes" /\ err = ""
    /\ pkt.cls = "HereIAmPacket"
    /\ Len(data) = 20

(***************************************************************************)
(* The known tags and the sizes of their variants, for the claims below.   *)
(***************************************************************************)
ClaimTags == {10, 11, 20, 21, 30}
SizeOfTag(t) == TOTAL_SIZE(PACKET_CLASSES[t])
HeaderTime(b) == Wide(S16(b[4] + 256 * b[5]), b[2] + 256 * b[3])
HeaderSerial(b) == Wide(S16(b[8] + 256 * b[9]), b[6] + 256 * b[7])

(***************************************************************************)
(* C4  Short-buffer rejection: parse_packet raises its too-short error and *)
(* returns no packet for every buffer shorter than the 9-byte header,      *)
(* whatever its first byte, and for every buffer with a known tag and a    *)
(* length of at least 9 but less than the total size of the tag's variant. *)
(***************************************************************************)
C4_ShortBufferRejected ==
    /\ (last.op = "parse_packet" /\ Len(src) < 9)
       => (err = ShortDecode /\ pkt = NoPacket)
    /\ (/\ last.op = "parse_packet" /\ Len(src) >= 9
        /\ src[1] \in ClaimTags /\ Len(src) < SizeOfTag(src[1]))
       => (err = ShortFor(PACKET_CLASSES[src[1]]) /\ pkt = NoPacket)

C4_Witness ==
    /\ last.op = "parse_packet"
    /\ Len(src) = 22 /\ src[1] = BOT_COMMAND
    /\ err = ShortFor("BotCommandPacket") /\ pkt = NoPacket

(***************************************************************************)
(* C5  Unknown-tag fallback: a buffer of at least 9 bytes whose first byte *)
(* is not a known tag decodes without error as a Raw packet with that      *)
(* byte as packet_type, the header's time and serial, and every byte after *)
(* the first 9 as payload; encoding that packet gives the buffer back.     *)
(***************************************************************************)
C5_UnknownTagFallback ==
    /\ (last.op = "parse_packet" /\ Len(src) >= 9 /\ src[1] \notin ClaimTags)
       => (/\ err = ""
           /\ pkt.cls = "RawRadioPacket"
           /\ pkt.packet_type = src[1]
           /\ pkt.time = HeaderTime(src)
           /\ pkt.serial = HeaderSerial(src)
           /\ pkt.payload = SubSeq(src, 10, Len(src)))
    /\ (last.op = "to_bytes" /\ Len(src) >= 9 /\ src[1] \notin ClaimTags)
       => (err = "" /\ data = src)

C5_Witness ==
    /\ last.op = "to_bytes" /\ Len(src) > 9 /\ src[1] = 255
    /\ pkt.cls = "RawRadioPacket" /\ Len(pkt.payload) = Len(src) - 9
    /\ pkt.time.hi < 0
    /\ data = src

(***************************************************************************)
(* C6  Over-length tolerance: a buffer that starts with the canonical      *)
(* bytes c of a fixed variant and goes on with any tail decodes without    *)
(* error to the packet that c alone decodes to.                            *)
(***************************************************************************)
C6_OverLengthTolerated ==
    /\ (/\ last.op = "parse_packet" /\ Len(src) >= 9
        /\ src[1] \in ClaimTags /\ Len(src) > SizeOfTag(src[1]))
       => LET c == parse_packet(SubSeq(src, 1, SizeOfTag(src[1])))
          IN  /\ err = "" /\ c.err = ""
              /\ pkt.cls = PACKET_CLASSES[src[1]]
              /\ SameFields(pkt, c.val)
    /\ (last.op = "parse_packet" /\ sent.cls \in FixedClasses)
       => (err = "" /\ SameFields(pkt, sent))

C6_Witness ==
    /\ last.op = "parse_packet"
    /\ sent.cls = "HereIAmPacket"
    /\ Len(src) = SizeOfTag(HERE_I_AM) + MaxTail
    /\ src[Len(src)] = 255
    /\ err = "" /\ pkt = sent

(***************************************************************************)
(* C7  Canonical re-encode: a buffer with a known tag and exactly the      *)
(* total size of the tag's variant, decoded and encoded again, gives the   *)
(* same bytes.                                                             *)
(***************************************************************************)
C7_CanonicalReencode ==
    (/\ last.op = "to_bytes" /\ Len(src) >= 9
     /\ src[1] \in ClaimTags /\ Len(src) = SizeOfTag(src[1]))
       => (err = "" /\ data = src)

C7_Witness ==
    /\ last.op = "to_bytes" /\ Len(src) = 27 /\ src[1] = DISPLAY
    /\ pkt.cls = "DisplayPacket"
    /\ src[16] # src[18]
    /\ pkt.time.hi < 0
    /\ data = src

(***************************************************************************)
(* C8  Colour packing: _split_color(_join_color(r, g, b)) = (r, g, b) for  *)
(* r, g, b in 0..255; a Display packet built with colour v stores v masked *)
(* to 24 bits and encodes the three bytes that a packet built with the     *)
(* masked value encodes.                                                   *)
(***************************************************************************)
ColourNames == <<"head_lamp_left", "head_lamp_right", "neo_left", "neo_right">>
\* the three bytes of the j-th colour in an encoded Display packet
ColourBytes(b, j) == SubSeq(b, 13 + 3 * j, 15 + 3 * j)
ByteSamples == {U8(i) : i \in 0..(NumSamples - 1)} \cup {1, 127, 128, 254}

C8_ColourPacking ==
    /\ Idle =>
          \A x \in 0..255 : \A y, z \in ByteSamples :
             /\ _split_color(_join_color(x, y, z)) = <<x, y, z>>
             /\ _split_color(_join_color(y, x, z)) = <<y, x, z>>
             /\ _split_color(_join_color(y, z, x)) = <<y, z, x>>
    /\ (last.op = "parse_packet" /\ err = "" /\ pkt.cls = "DisplayPacket")
       => \A j \in 1..4 : _split_color(pkt[ColourNames[j]]) = ColourBytes(src, j)
    /\ (last.op = "init" /\ kw.cls = "DisplayPacket")
       => \A j \in 1..4 :
             pkt[ColourNames[j]] = WrapTo("u24", kw.args[ColourNames[j]])
    /\ (last.op = "to_bytes" /\ Encoded /\ kw.cls = "DisplayPacket")
       => LET masked == [n \in DOMAIN kw.args |->
                            IF KwKind("DisplayPacket", n) = "u24"
                            THEN WrapTo("u24", kw.args[n]) ELSE kw.args[n]]
              q == to_bytes(DisplayPacket(None, masked).val)
          IN  /\ err = "" /\ q.err = ""
              /\ \A j \in 1..4 :
                    LET v == masked[ColourNames[j]] IN
                    /\ ColourBytes(data, j) = ColourBytes(q.val, j)
                    /\ ColourBytes(data, j) =
                          <<v \div 65536, (v \div 256) % 256, v % 256>>

C8_Witness ==
    /\ last.op = "to_bytes" /\ Encoded /\ kw.cls = "DisplayPacket"
    /\ kw.args.neo_left = 16777221
    /\ pkt.neo_left = 5
    /\ ColourBytes(data, 3) = <<0, 0, 5>>

(***************************************************************************)
(* C9  WrongVariant: building one of the five fixed variants from a buffer *)
(* of at least 9 bytes whose type tag is not the variant's own raises the  *)
(* variant's "Not a ... packet" error and produces no packet, whatever the *)
(* length of the buffer.                                                   *)
(***************************************************************************)
C9_WrongVariantRejected ==
    (/\ last.op = "from_bytes" /\ last.cls \in FixedClasses
     /\ Len(src) >= 9 /\ src[1] # PACKET_TYPE(last.cls))
       => (err = NotA(last.cls) /\ pkt = NoPacket)

C9_Witness ==
    /\ last.op = "from_bytes" /\ last.cls = "BotStatusPacket"
    /\ Len(src) = TOTAL_SIZE("BotStatusPacket") /\ src[1] = HERE_I_AM
    /\ err = NotA("BotStatusPacket") /\ pkt = NoPacket

(***************************************************************************)
(* C10  PeerDB.add given a packet that is not a HereIAm packet raises,     *)
(* stores nothing and leaves the mapping and its length unchanged.         *)
(***************************************************************************)
C10_AddRejectsOtherVariants ==
    [][(last'.op = "add" /\ pkt'.cls # "HereIAmPacket")
          => (/\ err' # ""
              /\ peers' = peers
              /\ PeerDB_len(peers') = PeerDB_len(peers))]_vars

C10_Witness ==
    /\ last.op = "add" /\ pkt.cls = "BotCommandPacket"
    /\ err = AttributeError
    /\ PeerDB_len(peers) = 2

(***************************************************************************)
(* C11  PeerDB is a last-write-wins map.  Stated step by step, which gives *)
(* the claim for every sequence of add and clear from the empty store: an  *)
(* add that succeeds for a packet of serial s makes find_by_serial(s) the  *)
(* record derived from that packet, leaves find_by_serial(t) as it was for *)
(* every other serial t, and makes len() grow by one exactly when s was    *)
(* not yet stored; an add that raises changes nothing; after clear every   *)
(* lookup is None and len() is 0.                                          *)
(***************************************************************************)
PeerSerials == {I32(k) : k \in 0..(NumSamples - 1)}

C11_LastWriteWins ==
    [][LET known == PeerSerials \cup DOMAIN peers \cup DOMAIN peers' IN
       /\ (last'.op = "add" /\ err' = "")
             => /\ PeerDB_find_by_serial(peers', pkt'.serial)
                     = Some(PeerRecord_from_packet(pkt').val)
                /\ \A t \in known \ {pkt'.serial} :
                      PeerDB_find_by_serial(peers', t)
                         = PeerDB_find_by_serial(peers, t)
                /\ PeerDB_len(peers')
                     = PeerDB_len(peers)
                          + (IF pkt'.serial \in DOMAIN peers THEN 0 ELSE 1)
       /\ (last'.op = "add" /\ err' # "") => peers' = peers
       /\ last'.op = "clear"
             => /\ \A t \in known : PeerDB_find_by_serial(peers', t) = None
                /\ PeerDB_len(peers') = 0]_vars

\* three serials are stored and the last add is the one found under its serial
C11_Witness ==
    /\ last.op = "add" /\ err = "" /\ pkt.cls = "HereIAmPacket"
    /\ PeerDB_len(peers) = 3
    /\ PeerDB_find_by_serial(peers, pkt.serial)
          = Some(PeerRecord_from_packet(pkt).val)
    /\ \E t \in DOMAIN peers :
          t # pkt.serial /\ peers[t].class_id # peers[pkt.serial].class_id

(***************************************************************************)
(* Hexadecimal text as the claims speak of it: an even number of digits,   *)
(* two per byte.                                                           *)
(***************************************************************************)
IsHexOf(h, b) ==
    /\ Len(h) = 2 * Len(b)
    /\ \A i \in 1..Len(b) :
          /\ HexVal(h[2 * i - 1]) >= 0
          /\ HexVal(h[2 * i]) >= 0
          /\ 16 * HexVal(h[2 * i - 1]) + HexVal(h[2 * i]) = b[i]

IsHex(h) ==
    Len(h) % 2 = 0 /\ \A i \in 1..Len(h) : HexVal(h[i]) >= 0

\* the line without its terminators, and its parts around the first ':'
LineText(l) == rstrip(decode_utf8(l), {"\r", "\n"})
LineParts(l) == partition(LineText(l), ":")

\* ("r", the bytes spelled by the remainder without its spaces, or no bytes)
IsFrameEvent(e, rest) ==
    LET h == replace_spaces(rest) IN
    /\ e # None
    /\ e[1].command = R
    /\ e[1].data.type = "bytes"
    /\ IF IsHex(h) THEN IsHexOf(h, e[1].data.val) ELSE e[1].data.val = <<>>

(***************************************************************************)
(* C12 as stated: a non-empty line without ':' gives ("log", the line); a  *)
(* line whose prefix before the first ':' is "r" gives ("r", the bytes of  *)
(* the remainder, none when it is not hexadecimal); a line with any other  *)
(* prefix gives (the prefix trimmed and lower-cased, the remainder trimmed *)
(* as text).                                                               *)
(***************************************************************************)
C12_Classification ==
    (io.op = "iter" /\ LineText(io.arg) # <<>>)
       => LET p == LineParts(io.arg) IN
          /\ p.sep = <<>> => io.ret = Some(Event(LOG, Str(LineText(io.arg))))
          /\ (p.sep # <<>> /\ p.prefix = R) => IsFrameEvent(io.ret, p.rest)
          /\ (p.sep # <<>> /\ p.prefix # R)
                => io.ret = Some(Event(lower(strip(p.prefix)),
                                       Str(strip(p.rest))))

(***************************************************************************)
(* C12 amended: the prefix is trimmed and lower-cased before it is looked  *)
(* at.  A non-empty line without ':' gives ("log", the line); a line whose *)
(* trimmed lower-cased prefix is "r" gives ("r", the bytes of the          *)
(* remainder, none when it is not hexadecimal); a line whose trimmed       *)
(* prefix is empty gives ("log", the remainder trimmed); any other prefix  *)
(* gives (the prefix trimmed and lower-cased, the remainder trimmed).      *)
(***************************************************************************)
C12_ClassificationTrimmed ==
    (io.op = "iter" /\ LineText(io.arg) # <<>>)
       => LET p == LineParts(io.arg)
              c == lower(strip(p.prefix))
          IN  /\ p.sep = <<>>
                    => io.ret = Some(Event(LOG, Str(LineText(io.arg))))
              /\ (p.sep # <<>> /\ c = R) => IsFrameEvent(io.ret, p.rest)
              /\ (p.sep # <<>> /\ c = <<>>)
                    => io.ret = Some(Event(LOG, Str(strip(p.rest))))
              /\ (p.sep # <<>> /\ c \notin {R, <<>>})
                    => io.ret = Some(Event(c, Str(strip(p.rest))))

\* "r: zz" was read and gave ("r", no bytes)
C12_Witness ==
    /\ io.op = "iter"
    /\ io.arg = encode_ascii(<<"r", ":", " ", "z", "z", "\n">>)
    /\ io.ret = Some(Event(R, Bytes(<<>>)))

(***************************************************************************)
(* C15 as stated: send writes, in one write, the line "s: <hex>" and a     *)
(* newline, <hex> being the lowercase hexadecimal text of a bytes payload  *)
(* or a text payload without its spaces and trimmed, leaves nothing        *)
(* unflushed and returns the line without the newline.                     *)
(***************************************************************************)
SentHex(payload, h) ==
    IF payload.type = "bytes"
    THEN IsHexOf(h, payload.val) /\ lower(h) = h
    ELSE h = strip(replace_spaces(payload.val))

C15_OutboundFrame ==
    [][io'.op = "send"
          => /\ \E h \in {SubSeq(io'.ret, 4, Len(io'.ret))} :
                   /\ io'.ret = CMD_SEND \o <<" ">> \o h
                   /\ SentHex(io'.arg, h)
             /\ port'.wire = Append(port.wire, encode_ascii(io'.ret) \o <<10>>)
             /\ port'.out = <<>>]_vars

(***************************************************************************)
(* C15 amended: the line is "s: <hex>" trimmed, which is "s:" when <hex>   *)
(* is empty; the rest as stated.                                           *)
(***************************************************************************)
C15_OutboundFrameTrimmed ==
    [][io'.op = "send"
          => /\ \E h \in {SubSeq(io'.ret, 4, Len(io'.ret))} :
                   /\ io'.ret = strip(CMD_SEND \o <<" ">> \o h)
                   /\ SentHex(io'.arg, h)
             /\ port'.wire = Append(port.wire, encode_ascii(io'.ret) \o <<10>>)
             /\ port'.out = <<>>]_vars

\* two payloads were sent, the second one without any byte
C15_Witness ==
    /\ io.op = "send"
    /\ io.arg = Bytes(<<>>)
    /\ Len(port.wire) = 2
    /\ port.wire[2] = <<115, 58, 10>>
    /\ port.out = <<>>

(***************************************************************************)
(* The events of the current consumer call, and the lines read that are    *)
(* not empty once their terminators are stripped.                          *)
(***************************************************************************)
NonBlank(l) == LineText(l) # <<>>
LastOf(s, n) == SubSeq(s, Len(s) - n + 1, Len(s))
Consumed == LastOf(hist.events, gen.n)

(***************************************************************************)
(* C13  Over any sequence of pump_serial and wait_for_response calls, the  *)
(* lines read are the lines delivered, in order and without gap, the next  *)
(* call reading on where the last one stopped; the events yielded are, in  *)
(* order, one per line read that is not empty without its terminators,     *)
(* each the event of its line; an empty line yields nothing.               *)
(***************************************************************************)
C13_OrderedComplete ==
    LET lines == SelectSeq(hist.reads, NonBlank) IN
    /\ hist.arrived = hist.reads \o port.rx
    /\ Len(hist.events) = Len(lines)
    /\ \A i \in 1..Len(lines) : <<hist.events[i]>> = iter_event(lines[i])

\* a call that another call had abandoned before has read on: three lines
\* were read, one of them empty, and two events yielded, one in this call
C13_Witness ==
    /\ Len(hist.reads) = 3
    /\ \E i \in 1..3 : ~NonBlank(hist.reads[i])
    /\ Len(hist.events) = 2
    /\ hist.events[1].command = R
    /\ job.fn = "pump_serial"
    /\ gen.n = 1

(***************************************************************************)
(* C14  A call of iter with a timeout ends: every read of it begins before *)
(* its deadline, it ends only once the deadline is reached, a call with a  *)
(* timeout of 0 or less reads nothing and yields nothing, and, the         *)
(* consumer calling next() each time, a running bounded call comes to its  *)
(* end (or is abandoned by its consumer), lines waiting or not.            *)
(***************************************************************************)
C14_NoReadPastDeadline ==
    /\ (gen.deadline # None /\ gen.readAt # None)
          => gen.readAt[1] < gen.deadline[1]
    /\ gen.st = "ended" => (gen.deadline # None /\ now >= gen.deadline[1])
    /\ (gen.st # "none" /\ job.timeout # None /\ job.timeout[1] <= 0)
          => (gen.readAt = None /\ gen.n = 0)

C14_BoundedIterEnds ==
    /\ []C14_NoReadPastDeadline
    /\ (gen.st = "running" /\ gen.deadline # None)
          ~> (gen.st \in {"ended", "closed"})

\* a call with timeout 0 has ended while a line was waiting
C14_Witness ==
    /\ job.timeout = Some(0)
    /\ gen.st = "ended"
    /\ port.rx # <<>>
    /\ gen.n = 0

(***************************************************************************)
(* C16 as stated: wait_for_response logs every event it consumes, in       *)
(* order; it returns the payload of the first event whose command is the   *)
(* target, which is the last event it consumes, and None when its          *)
(* generator ends without such an event.  pump_serial logs every event of  *)
(* its window and returns None.                                            *)
(***************************************************************************)
LoggedAll ==
    hist.events = hist.logged \o (IF gen.st = "yielded" THEN gen.event ELSE <<>>)

Hits == {i \in 1..gen.n : Consumed[i].command = job.command}

C16_WaitReturnsPayload ==
    /\ LoggedAll
    /\ (job.fn = "wait_for_response" /\ job.st = "returned")
          => IF Hits = {}
             THEN job.ret = None /\ gen.st = "ended"
             ELSE /\ Hits = {gen.n}
                  /\ gen.st = "closed"
                  /\ job.ret # None
                  /\ Consumed[gen.n].data.type = "bytes"
                        => job.ret[1] = Consumed[gen.n].data.val
    /\ (job.fn = "pump_serial" /\ job.st = "returned")
          => (job.ret = None /\ gen.st = "ended")

(***************************************************************************)
(* C16 amended: the value returned for the first matching event is its     *)
(* payload when that is bytes; when it is text, the bytes the text spells  *)
(* in hexadecimal once its spaces are removed, and None when it spells     *)
(* none.  The rest as stated.                                              *)
(***************************************************************************)
C16_WaitReturnsBytes ==
    /\ LoggedAll
    /\ (job.fn = "wait_for_response" /\ job.st = "returned")
          => IF Hits = {}
             THEN job.ret = None /\ gen.st = "ended"
             ELSE LET d == Consumed[gen.n].data
                      h == replace_spaces(d.val)
                  IN  /\ Hits = {gen.n}
                      /\ gen.st = "closed"
                      /\ d.type = "bytes" => job.ret = Some(d.val)
                      /\ (d.type = "str" /\ IsHex(h))
                            => (job.ret # None /\ IsHexOf(h, job.ret[1]))
                      /\ (d.type = "str" /\ ~IsHex(h)) => job.ret = None
    /\ (job.fn = "pump_serial" /\ job.st = "returned")
          => (job.ret = None /\ gen.st = "ended")

\* waiting for "status", the call logged an "r" event, then returned the
\* byte of "status:0a" without reading the line behind it
C16_Witness ==
    /\ job.fn = "wait_for_response" /\ job.st = "returned"
    /\ job.command = STATUS
    /\ gen.n = 2
    /\ Consumed[1].command = R
    /\ job.ret = Some(<<10>>)
    /\ hist.logged = hist.events
    /\ port.rx # <<>>

(***************************************************************************)
(* C17  A malformed or too-short "r" frame never aborts a consumer loop:   *)
(* in echo_packets and in send_structured_packets alike no decode error    *)
(* leaves the program; the frame is reported and the program goes on with  *)
(* the next event or packet.                                               *)
(***************************************************************************)
C17_NoDecodeErrorEscapes ==
    (InEcho \/ InSend) => (prog.pc # "raised" /\ prog.err = "")

(***************************************************************************)
(* C18  In send_structured_packets the wait for the echo of a packet sent  *)
(* comes to an end whatever the relay delivers, frames of other variants   *)
(* arriving faster than the response timeout included.  Leaving the loop   *)
(* by an error is counted as an end here.                                  *)
(***************************************************************************)
C18_EchoWaitEnds ==
    (InSend /\ prog.pc = "wait") ~> (prog.pc # "wait")

====
